---- MODULE Spec2Model ----
(***************************************************************************)
(* Model of the parsephp package: the key tokenizer (tokenizeKey) and the  *)
(* tree builder (ParseStrWithOptions / insert) that turn a query string    *)
(* into a tree of scalars, slices and maps.                                *)
(*                                                                         *)
(* A Go string is modelled as a sequence of one-character strings, so that *)
(* scanning, digit tests and decimal conversion are computed as the code   *)
(* computes them.  A Go value of type any is a record [kind, val]:         *)
(*   string          [kind |-> "S", val |-> <characters>]                  *)
(*   []any           [kind |-> "Q", val |-> <elements>]                    *)
(*   map[string]any  [kind |-> "M", val |-> function from keys]            *)
(*   nil             [kind |-> "H", val |-> <<>>]                          *)
(***************************************************************************)
EXTENDS Integers, Sequences, FiniteSets, TLC

VARIABLES
    root,      \* ParseStrWithOptions: the result map, base key -> node
    prev,      \* root as it was when the current loop iteration began
    pairs,     \* the (dk, dv) pairs the loop has processed, in input order
    pc,        \* "loop": between iterations, "fatal": the runtime aborted
    s,         \* tokenizeKey: the key being scanned
    i,         \* tokenizeKey: scan position (0-based, as in the code)
    baseB,     \* tokenizeKey: the base built so far
    tokens,    \* tokenizeKey: the tokens emitted so far
    res,       \* tokenizeKey: the returned slice (base followed by tokens)
    tpc,       \* tokenizeKey: "scan" or "done"
    DefaultOptions,  \* the package variable DefaultOptions
    call,      \* ParseStrWithOptions on a raw query: the locals of a call
    calls,     \* the locals of each of two calls in progress together
    decS,      \* decode: the string s
    decStrict, \* decode: the flag strict
    decOut,    \* decode: the string returned
    decErr,    \* decode: whether an error is returned
    decPc      \* decode: "call" or "done"

vars == <<root, prev, pairs, pc, s, i, baseB, tokens, res, tpc,
          DefaultOptions, call, calls, decS, decStrict, decOut, decErr, decPc>>
parseVars == <<root, prev, pairs, pc>>
tokVars == <<s, i, baseB, tokens, res, tpc>>
callVars == <<DefaultOptions, call, calls>>
decVars == <<decS, decStrict, decOut, decErr, decPc>>

(***************************************************************************)
(* Bounds of the model.                                                    *)
(***************************************************************************)
MaxPairs == 3      \* pairs of one query
MaxIndex == 2      \* largest index growSlice is asked for that fits memory
MaxKeyLen == 5     \* length of the keys given to the tokenizer

(***************************************************************************)
(* Strings.                                                                *)
(***************************************************************************)
Digits == <<"0", "1", "2", "3", "4", "5", "6", "7", "8", "9">>

IsDigit(c) == \E d \in 1..10 : Digits[d] = c

DigitVal(c) == (CHOOSE d \in 1..10 : Digits[d] = c) - 1

\* math.MaxInt64 in decimal, the largest value strconv.Atoi returns.
MaxIntDigits ==
    <<"9","2","2","3","3","7","2","0","3","6","8","5","4","7","7","5","8","0","7">>

\* math.MinInt64 in decimal, what MaxInt64 + 1 wraps to.
MinIntString ==
    <<"-","9","2","2","3","3","7","2","0","3","6","8","5","4","7","7","5","8","0","8">>

\* isNumeric: non-empty and digits only.
isNumeric(str) ==
    /\ str # <<>>
    /\ \A p \in 1..Len(str) : IsDigit(str[p])

RECURSIVE StripZeros(_)
\* The canonical decimal form of a digit string: no leading zeros.
StripZeros(ds) ==
    IF Len(ds) > 1 /\ Head(ds) = "0" THEN StripZeros(Tail(ds)) ELSE ds

RECURSIVE LexLess(_, _)
LexLess(x, y) ==
    IF x = <<>> THEN FALSE
    ELSE IF DigitVal(Head(x)) # DigitVal(Head(y))
         THEN DigitVal(Head(x)) < DigitVal(Head(y))
         ELSE LexLess(Tail(x), Tail(y))

\* x < y for two canonical decimal numbers (an int is kept in decimal: the
\* values at stake exceed the integers TLC evaluates).
DecLess(x, y) ==
    \/ Len(x) < Len(y)
    \/ Len(x) = Len(y) /\ LexLess(x, y)

\* strconv.Atoi on a digit string: the value, or MaxInt64 and an error when
\* the value is out of range.
Atoi(str) ==
    LET c == StripZeros(str)
    IN  IF DecLess(MaxIntDigits, c)
        THEN [n |-> [neg |-> FALSE, mag |-> MaxIntDigits], err |-> TRUE]
        ELSE [n |-> [neg |-> FALSE, mag |-> c], err |-> FALSE]

RECURSIVE DecSucc(_)
\* The canonical decimal number one larger than ds.
DecSucc(ds) ==
    IF ds = <<>> THEN <<"1">>
    ELSE LET last == ds[Len(ds)]
             front == SubSeq(ds, 1, Len(ds) - 1)
         IN  IF last = "9"
             THEN DecSucc(front) \o <<"0">>
             ELSE front \o <<Digits[DigitVal(last) + 2]>>

RECURSIVE DecToNat(_)
\* The integer a short canonical decimal number denotes.
DecToNat(ds) ==
    IF ds = <<>> THEN 0
    ELSE 10 * DecToNat(SubSeq(ds, 1, Len(ds) - 1)) + DigitVal(ds[Len(ds)])

RECURSIVE NatToDec(_)
NatToDec(n) ==
    IF n < 10 THEN <<Digits[n + 1]>>
    ELSE NatToDec(n \div 10) \o <<Digits[(n % 10) + 1]>>

\* A Go int is a sign and a canonical decimal magnitude.
IntOfNat(n) == [neg |-> FALSE, mag |-> NatToDec(n)]
MinusOne == [neg |-> TRUE, mag |-> <<"1">>]
MaxInt == [neg |-> FALSE, mag |-> MaxIntDigits]
MinInt == [neg |-> TRUE, mag |-> Tail(MinIntString)]

\* n > m on ints, for a non-negative n.
IntGreater(n, m) == m.neg \/ DecLess(m.mag, n.mag)

\* n + 1 on ints, wrapping around at MaxInt64 as Go's int does.
IntSucc(n) ==
    IF n = MinusOne THEN IntOfNat(0)
    ELSE IF n = MaxInt THEN MinInt
    ELSE [neg |-> FALSE, mag |-> DecSucc(n.mag)]

\* strconv.Itoa.
Itoa(n) == IF n.neg THEN <<"-">> \o n.mag ELSE n.mag

(***************************************************************************)
(* Nodes.                                                                  *)
(***************************************************************************)
Scalar(str) == [kind |-> "S", val |-> str]
Sequence(elems) == [kind |-> "Q", val |-> elems]
Mapping(f) == [kind |-> "M", val |-> f]
Hole == [kind |-> "H", val |-> <<>>]
\* The outcome of a walk during which growSlice exhausted memory.
Fatal == [kind |-> "F", val |-> <<>>]

EmptyMap == [k \in {} |-> Hole]

IsScalar(nd) == nd.kind = "S"
IsSequence(nd) == nd.kind = "Q"
IsMapping(nd) == nd.kind = "M"
IsHole(nd) == nd.kind = "H"

\* m[key] = v on a Go map.
MapSet(f, key, v) ==
    [k \in (DOMAIN f) \cup {key} |-> IF k = key THEN v ELSE f[k]]

(***************************************************************************)
(* tokenizeKey.                                                            *)
(***************************************************************************)
\* The position of the first "]" at or after position j (0-based), or Len(str).
RECURSIVE FindClose(_, _)
FindClose(str, j) ==
    IF j < Len(str) /\ str[j + 1] # "]" THEN FindClose(str, j + 1) ELSE j

\* The position after the run of "]" that starts at position p.
RECURSIVE SkipClose(_, _)
SkipClose(str, p) ==
    IF p < Len(str) /\ str[p + 1] = "]" THEN SkipClose(str, p + 1) ELSE p

\* TokStep with an unmatched "[" taking the rest of the key as a token.
TokStepRemainder(str, st) ==
    LET c == str[st.i + 1]
        j == FindClose(str, st.i + 1)
    IN  IF c = "["
        THEN IF j < Len(str)
             THEN [i |-> SkipClose(str, j + 1),
                   baseB |-> st.baseB,
                   tokens |-> Append(st.tokens, SubSeq(str, st.i + 2, j))]
             ELSE [i |-> Len(str),
                   baseB |-> st.baseB,
                   tokens |-> Append(st.tokens,
                                     SubSeq(str, st.i + 2, Len(str)))]
        ELSE [i |-> st.i + 1,
              baseB |-> Append(st.baseB, c),
              tokens |-> st.tokens]

\* TokStep with a "]" met outside a bracket pair dropped instead of kept.
TokStepDropStray(str, st) ==
    LET c == str[st.i + 1]
        j == FindClose(str, st.i + 1)
    IN  IF c = "["
        THEN IF j < Len(str)
             THEN [i |-> SkipClose(str, j + 1),
                   baseB |-> st.baseB,
                   tokens |-> Append(st.tokens, SubSeq(str, st.i + 2, j))]
             ELSE [i |-> st.i + 1,
                   baseB |-> Append(st.baseB, "_"),
                   tokens |-> st.tokens]
        ELSE [i |-> st.i + 1,
              baseB |-> IF c = "]" THEN st.baseB ELSE Append(st.baseB, c),
              tokens |-> st.tokens]

\* TokStep without the loop that skips the "]" following a matched pair.
TokStepNoSkip(str, st) ==
    LET c == str[st.i + 1]
        j == FindClose(str, st.i + 1)
    IN  IF c = "["
        THEN IF j < Len(str)
             THEN [i |-> j + 1,
                   baseB |-> st.baseB,
                   tokens |-> Append(st.tokens, SubSeq(str, st.i + 2, j))]
             ELSE [i |-> st.i + 1,
                   baseB |-> Append(st.baseB, "_"),
                   tokens |-> st.tokens]
        ELSE [i |-> st.i + 1,
              baseB |-> Append(st.baseB, c),
              tokens |-> st.tokens]

\* TokStep with the base closed by the first token: the text met after a
\* token has been emitted is not added to the base.
TokStepBaseFrozen(str, st) ==
    LET c == str[st.i + 1]
        j == FindClose(str, st.i + 1)
        frozen == st.tokens # <<>>
    IN  IF c = "["
        THEN IF j < Len(str)
             THEN [i |-> SkipClose(str, j + 1),
                   baseB |-> st.baseB,
                   tokens |-> Append(st.tokens, SubSeq(str, st.i + 2, j))]
             ELSE [i |-> st.i + 1,
                   baseB |-> IF frozen THEN st.baseB
                             ELSE Append(st.baseB, "_"),
                   tokens |-> st.tokens]
        ELSE [i |-> st.i + 1,
              baseB |-> IF frozen THEN st.baseB ELSE Append(st.baseB, c),
              tokens |-> st.tokens]

\* One iteration of the scanning loop, on the state [i, baseB, tokens].
TokStep(str, st) ==
    LET c == str[st.i + 1]
        j == FindClose(str, st.i + 1)
    IN  IF c = "["
        THEN IF j < Len(str)
             THEN [i |-> SkipClose(str, j + 1),
                   baseB |-> st.baseB,
                   tokens |-> Append(st.tokens, SubSeq(str, st.i + 2, j))]
             ELSE [i |-> st.i + 1,
                   baseB |-> Append(st.baseB, "_"),
                   tokens |-> st.tokens]
        ELSE [i |-> st.i + 1,
              baseB |-> Append(st.baseB, c),
              tokens |-> st.tokens]

RECURSIVE TokLoop(_, _)
TokLoop(str, st) ==
    IF st.i < Len(str) THEN TokLoop(str, TokStep(str, st)) ELSE st

\* tokenizeKey: the base followed by the tokens; nil (<<>>) for the empty key.
tokenizeKey(str) ==
    IF str = <<>> THEN <<>>
    ELSE LET st == TokLoop(str, [i |-> 0, baseB |-> <<>>, tokens |-> <<>>])
         IN  <<st.baseB>> \o st.tokens

(***************************************************************************)
(* insert and its helpers.                                                 *)
(***************************************************************************)
\* ensureSlice: a slice is kept, anything else is replaced by an empty one.
ensureSlice(container) ==
    IF IsSequence(container) THEN container.val ELSE <<>>

\* ensureMap with the elements keyed from 1 instead of 0.
ensureMapFromOne(container) ==
    IF IsMapping(container) THEN container.val
    ELSE IF IsSequence(container)
         THEN LET v == container.val
              IN  [k \in {Itoa(IntOfNat(p)) : p \in 1..Len(v)} |->
                      v[CHOOSE p \in 1..Len(v) : Itoa(IntOfNat(p)) = k]]
         ELSE EmptyMap

\* ensureMap with the nil elements of the slice left out.
ensureMapDropHoles(container) ==
    IF IsMapping(container) THEN container.val
    ELSE IF IsSequence(container)
         THEN LET v == container.val
                  kept == {p \in 1..Len(v) : ~IsHole(v[p])}
              IN  [k \in {Itoa(IntOfNat(p - 1)) : p \in kept} |->
                      v[CHOOSE p \in kept : Itoa(IntOfNat(p - 1)) = k]]
         ELSE EmptyMap

\* ensureMap: a map is kept; a slice becomes a map of its elements under
\* their decimal indices; anything else is replaced by an empty map.
ensureMap(container) ==
    IF IsMapping(container) THEN container.val
    ELSE IF IsSequence(container)
         THEN LET v == container.val
              IN  [k \in {Itoa(IntOfNat(p - 1)) : p \in 1..Len(v)} |->
                      v[CHOOSE p \in 1..Len(v) : Itoa(IntOfNat(p - 1)) = k]]
         ELSE EmptyMap

\* growSlice with the loop running once too often.
growSliceOneMore(sl, idx) ==
    IF Len(sl) > idx + 1 THEN sl
    ELSE sl \o [p \in 1..(idx + 2 - Len(sl)) |-> Hole]

\* growSlice: nils are appended until the length exceeds idx.
growSlice(sl, idx) ==
    IF Len(sl) > idx THEN sl
    ELSE sl \o [p \in 1..(idx + 1 - Len(sl)) |-> Hole]

\* growSlice's loop runs out of memory: the index is beyond what can be
\* allocated (an int of more than nine digits is beyond any bound here).
growExhausts(sl, n) ==
    \/ Len(n.mag) > 9
    \/ DecToNat(n.mag) >= Len(sl) /\ DecToNat(n.mag) > MaxIndex

\* nextAutoIndex: one more than the largest digit-only key that Atoi accepts,
\* 0 when there is none.
nextAutoIndex(m) ==
    LET nums == {Atoi(k).n : k \in {q \in DOMAIN m : isNumeric(q) /\ ~Atoi(q).err}}
        max == IF nums = {} THEN MinusOne
               ELSE CHOOSE n \in nums : \A o \in nums : ~IntGreater(o, n)
    IN  IntSucc(max)

\* NewChild that makes a map whatever the next token is.
NewChildMapping(nextTok) == Mapping(EmptyMap)

\* The container created for a child, chosen by the next token.
NewChild(nextTok) ==
    IF nextTok = <<>> \/ isNumeric(nextTok)
    THEN Sequence(<<>>)
    ELSE Mapping(EmptyMap)

\* ChildFor with the existing child always replaced.
ChildForFresh(present, child, nextTok) == NewChild(nextTok)

\* ChildFor with a string child kept as the first element of the slice that
\* replaces it, as insert does at the base.
ChildForSeeded(present, child, nextTok) ==
    IF present /\ (IsSequence(child) \/ IsMapping(child))
    THEN child
    ELSE IF present /\ IsScalar(child) /\ (nextTok = <<>> \/ isNumeric(nextTok))
         THEN Sequence(<<child>>)
         ELSE NewChild(nextTok)

\* The child to descend into: an existing slice or map is kept; an absent
\* entry, a nil or a string is replaced by a new container.
ChildFor(present, child, nextTok) ==
    IF present /\ (IsSequence(child) \/ IsMapping(child))
    THEN child
    ELSE NewChild(nextTok)

\* dispatch without the map cases: an empty or numeric token always takes
\* the slice path.
dispatchSliceOnly(cur, tok) ==
    IF tok = <<>> THEN "append"
    ELSE IF isNumeric(tok) THEN "index"
    ELSE "assoc"

\* The type switches of the token loop: what a token does to the container
\* it is applied to.
dispatch(cur, tok) ==
    IF tok = <<>>
    THEN IF IsMapping(cur) THEN "auto" ELSE "append"
    ELSE IF isNumeric(tok)
         THEN IF IsMapping(cur) THEN "key" ELSE "index"
         ELSE "assoc"

\* sliceAppend with the new element put in front.
slicePrepend(sl, v) == <<v>> \o sl

\* sl = append(sl, v)
sliceAppend(sl, v) == Append(sl, v)

RECURSIVE walk(_, _, _)
\* The token loop of insert, from the container cur on: the container as it
\* is after the remaining tokens toks have been applied, or Fatal.
walk(cur, toks, value) ==
    LET tok == Head(toks)
        rest == Tail(toks)
        isLeaf == rest = <<>>
        nextTok == IF isLeaf THEN <<>> ELSE Head(rest)
        Written(child) ==
            IF isLeaf THEN Scalar(value) ELSE walk(child, rest, value)
        PutNew(sl, child) ==
            LET r == Written(child)
            IN  IF r.kind = "F" THEN Fatal ELSE Sequence(sliceAppend(sl, r))
        PutSeq(sl, p, child) ==
            LET r == Written(child)
            IN  IF r.kind = "F" THEN Fatal ELSE Sequence([sl EXCEPT ![p] = r])
        PutMap(mp, key, child) ==
            LET r == Written(child)
            IN  IF r.kind = "F" THEN Fatal ELSE Mapping(MapSet(mp, key, r))
        KeyChild(mp, key) ==
            ChildFor(key \in DOMAIN mp,
                     IF key \in DOMAIN mp THEN mp[key] ELSE Hole, nextTok)
        how == dispatch(cur, tok)
    IN  CASE how = "append" ->
                PutNew(ensureSlice(cur), NewChild(nextTok))
          [] how = "auto" ->
                LET mp == cur.val
                    key == Itoa(nextAutoIndex(mp))
                IN  PutMap(mp, key, NewChild(nextTok))
          [] how = "key" ->
                LET mp == ensureMap(cur)
                IN  PutMap(mp, tok, KeyChild(mp, tok))
          [] how = "index" ->
                LET n == Atoi(tok).n
                    sl == ensureSlice(cur)
                IN  IF growExhausts(sl, n) THEN Fatal
                    ELSE LET p == DecToNat(n.mag) + 1
                             gr == growSlice(sl, p - 1)
                         IN  PutSeq(gr, p, ChildFor(TRUE, gr[p], nextTok))
          [] how = "assoc" ->
                LET mp == ensureMap(cur)
                IN  PutMap(mp, tok, KeyChild(mp, tok))

\* baseContainer with the scalar at the base discarded instead of kept as
\* the first element.
baseContainerDropScalar(rt, base, first) ==
    IF base \in DOMAIN rt /\ (IsSequence(rt[base]) \/ IsMapping(rt[base]))
    THEN rt[base]
    ELSE NewChild(first)

\* The container insert starts from at root[base], chosen by the first token
\* and by what root[base] holds.
baseContainer(rt, base, first) ==
    IF base \notin DOMAIN rt THEN NewChild(first)
    ELSE IF IsScalar(rt[base])
         THEN IF first = <<>> \/ isNumeric(first)
              THEN Sequence(<<rt[base]>>)
              ELSE Mapping(EmptyMap)
         ELSE IF IsSequence(rt[base]) \/ IsMapping(rt[base])
              THEN rt[base]
              ELSE NewChild(first)

\* insert that writes the container into a root map of its own instead of
\* the one it was given.
insertIntoNewRoot(rt, base, toks, value) ==
    LET r == walk(baseContainer(rt, base, Head(toks)), toks, value)
    IN  IF r.kind = "F"
        THEN [fatal |-> TRUE, root |-> rt]
        ELSE [fatal |-> FALSE, root |-> MapSet(EmptyMap, base, r)]

\* insert: the root map after base[tokens...] = value, for non-empty tokens.
insert(rt, base, toks, value) ==
    LET r == walk(baseContainer(rt, base, Head(toks)), toks, value)
    IN  IF r.kind = "F"
        THEN [fatal |-> TRUE, root |-> rt]
        ELSE [fatal |-> FALSE, root |-> MapSet(rt, base, r)]

\* assignPlain that leaves a slice or a map at the base in place.
assignPlainKeep(rt, base, value) ==
    IF base \in DOMAIN rt /\ ~IsScalar(rt[base])
    THEN rt
    ELSE MapSet(rt, base, Scalar(value))

\* The plain assignment root[base] = dv.
assignPlain(rt, base, value) == MapSet(rt, base, Scalar(value))

(***************************************************************************)
(* Inputs.                                                                 *)
(***************************************************************************)
\* The text of the key base[t1][t2]...
RECURSIVE Brackets(_)
Brackets(toks) ==
    IF toks = <<>> THEN <<>>
    ELSE <<"[">> \o Head(toks) \o <<"]">> \o Brackets(Tail(toks))

Key(base, toks) == base \o Brackets(toks)

\* The decoded, trimmed, non-empty keys of the pairs of a query.
Keys ==
    { Key(<<"a">>, <<>>),
      Key(<<"b">>, <<>>),
      Key(<<"a">>, << <<>> >>),
      Key(<<"a">>, << <<"0">> >>),
      Key(<<"a">>, << <<"2">> >>),
      Key(<<"a">>, << <<"0", "1">> >>),
      Key(<<"a">>, << <<"b">> >>),
      Key(<<"a">>, << MaxIntDigits >>),
      Key(<<"a">>, << <<"b">>, <<"c">> >>),
      Key(<<"a">>, << <<"b">>, <<"e">> >>),
      Key(<<"a">>, << <<"b">>, <<>> >>),
      Key(<<"a">>, << <<"b">>, <<"0">> >>),
      Key(<<"a">>, << <<>>, <<"b">> >>),
      Key(<<"a">>, << <<"0">>, <<"b">> >>) }

\* The keys of the queries that nest appends: an empty token before another
\* token, at the base and one level below, among appends, indices and plain
\* keys on two bases.
NestKeys ==
    { Key(<<"b">>, <<>>),
      Key(<<"b">>, << <<>> >>),
      Key(<<"a">>, << <<>> >>),
      Key(<<"a">>, << <<"2">> >>),
      Key(<<"a">>, << MaxIntDigits >>),
      Key(<<"a">>, << <<>>, <<"b">> >>),
      Key(<<"a">>, << <<>>, <<>> >>),
      Key(<<"a">>, << <<>>, <<"0">> >>),
      Key(<<"a">>, << <<"b">>, <<>>, <<"c">> >>) }

\* tokenizeKey on each of the keys.
Tokenized == [k \in Keys \cup NestKeys |-> tokenizeKey(k)]

\* The decoded, trimmed values.
Values == { <<"x">>, <<"y">> }

\* The characters of the keys given to the tokenizer on its own.
TokAlphabet == {"a", "b", "[", "]"}

TokKeys == UNION {[1..n -> TokAlphabet] : n \in 0..MaxKeyLen}

(***************************************************************************)
(* ParseStrWithOptions: the loop over the pairs.                           *)
(***************************************************************************)
ParseInit ==
    /\ root = EmptyMap
    /\ prev = EmptyMap
    /\ pairs = <<>>
    /\ pc = "loop"

TokIdle ==
    /\ s = <<>>
    /\ i = 0
    /\ baseB = <<>>
    /\ tokens = <<>>
    /\ res = <<>>
    /\ tpc = "idle"

\* No call of ParseStrWithOptions on a raw query is in progress.
CallIdle ==
    /\ DefaultOptions = [Separators |-> <<"&", ";">>, StrictDecode |-> FALSE]
    /\ call = [pc |-> "idle"]
    /\ calls = <<>>

\* No call of decode is in progress.
DecIdle ==
    /\ decS = <<>>
    /\ decStrict = FALSE
    /\ decOut = <<>>
    /\ decErr = FALSE
    /\ decPc = "idle"

\* A pair whose key has no bracket tokens: root[base] = dv.
AssignPlain(dk, dv) ==
    LET seq == Tokenized[dk]
    IN  /\ pc = "loop"
        /\ Len(pairs) < MaxPairs
        /\ Len(seq) = 1
        /\ root' = assignPlain(root, seq[1], dv)
        /\ prev' = root
        /\ pairs' = Append(pairs, <<dk, dv>>)
        /\ UNCHANGED <<pc, tokVars, callVars, decVars>>

\* A pair whose key has bracket tokens: insert(root, base, tokens, dv).
Insert(dk, dv) ==
    LET seq == Tokenized[dk]
        r == insert(root, seq[1], Tail(seq), dv)
    IN  /\ pc = "loop"
        /\ Len(pairs) < MaxPairs
        /\ Len(seq) > 1
        /\ ~r.fatal
        /\ root' = r.root
        /\ prev' = root
        /\ pairs' = Append(pairs, <<dk, dv>>)
        /\ UNCHANGED <<pc, tokVars, callVars, decVars>>

\* A pair whose insert asks growSlice for more than memory holds: the
\* runtime aborts the program and nothing is returned.
InsertFatal(dk, dv) ==
    LET seq == Tokenized[dk]
        r == insert(root, seq[1], Tail(seq), dv)
    IN  /\ pc = "loop"
        /\ Len(pairs) < MaxPairs
        /\ Len(seq) > 1
        /\ r.fatal
        /\ pc' = "fatal"
        /\ prev' = root
        /\ pairs' = Append(pairs, <<dk, dv>>)
        /\ UNCHANGED <<root, tokVars, callVars, decVars>>

Init == ParseInit /\ TokIdle /\ CallIdle /\ DecIdle

\* One iteration of the loop.
Next ==
    \E dk \in Keys, dv \in Values :
        \/ AssignPlain(dk, dv)
        \/ Insert(dk, dv)
        \/ InsertFatal(dk, dv)

Spec == Init /\ [][Next]_vars

\* One iteration of the loop, on a query of the keys that nest appends.
NextNest ==
    \E dk \in NestKeys, dv \in Values :
        \/ AssignPlain(dk, dv)
        \/ Insert(dk, dv)
        \/ InsertFatal(dk, dv)

SpecNest == Init /\ [][NextNest]_vars

(***************************************************************************)
(* tokenizeKey on its own: one step per iteration of its loop.             *)
(***************************************************************************)
ParseIdle ==
    /\ root = EmptyMap
    /\ prev = EmptyMap
    /\ pairs = <<>>
    /\ pc = "idle"

TokInit ==
    /\ s \in TokKeys
    /\ i = 0
    /\ baseB = <<>>
    /\ tokens = <<>>
    /\ res = <<>>
    /\ tpc = "scan"

TokState == [i |-> i, baseB |-> baseB, tokens |-> tokens]

TokApply ==
    LET st == TokStep(s, TokState)
    IN  /\ i' = st.i
        /\ baseB' = st.baseB
        /\ tokens' = st.tokens
        /\ UNCHANGED <<s, res, tpc, parseVars, callVars, decVars>>

\* The empty key: nil is returned.
EmptyKey ==
    /\ tpc = "scan"
    /\ s = <<>>
    /\ res' = <<>>
    /\ tpc' = "done"
    /\ UNCHANGED <<s, i, baseB, tokens, parseVars, callVars, decVars>>

\* A "[" with a "]" after it: a token is emitted.
MatchedBracket ==
    /\ tpc = "scan"
    /\ i < Len(s)
    /\ s[i + 1] = "["
    /\ FindClose(s, i + 1) < Len(s)
    /\ TokApply

\* A "[" with no "]" after it.
UnmatchedOpen ==
    /\ tpc = "scan"
    /\ i < Len(s)
    /\ s[i + 1] = "["
    /\ FindClose(s, i + 1) >= Len(s)
    /\ TokApply

\* Any other character.
BaseChar ==
    /\ tpc = "scan"
    /\ i < Len(s)
    /\ s[i + 1] # "["
    /\ TokApply

\* The end of the key: the base and the tokens are returned.
TokReturn ==
    /\ tpc = "scan"
    /\ s # <<>>
    /\ i >= Len(s)
    /\ res' = <<baseB>> \o tokens
    /\ tpc' = "done"
    /\ UNCHANGED <<s, i, baseB, tokens, parseVars, callVars, decVars>>

InitTok == ParseIdle /\ TokInit /\ CallIdle /\ DecIdle

NextTok == EmptyKey \/ MatchedBracket \/ UnmatchedOpen \/ BaseChar \/ TokReturn

SpecTok == InitTok /\ [][NextTok]_vars

(***************************************************************************)
(* decode: application/x-www-form-urlencoded decoding of a key or a value. *)
(***************************************************************************)
HexUpper == <<"0", "1", "2", "3", "4", "5", "6", "7", "8", "9",
              "A", "B", "C", "D", "E", "F">>

HexLower == <<"0", "1", "2", "3", "4", "5", "6", "7", "8", "9",
              "a", "b", "c", "d", "e", "f">>

\* isHex: 0-9, a-f, A-F.
isHex(c) == \E d \in 1..16 : HexUpper[d] = c \/ HexLower[d] = c

HexVal(c) == (CHOOSE d \in 1..16 : HexUpper[d] = c \/ HexLower[d] = c) - 1

\* The characters of the bytes 0x20 .. 0x7E, in order.
Printable ==
    <<" ", "!", "\"", "#", "$", "%", "&", "'", "(", ")", "*", "+", ",", "-",
      ".", "/", "0", "1", "2", "3", "4", "5", "6", "7", "8", "9", ":", ";",
      "<", "=", ">", "?", "@", "A", "B", "C", "D", "E", "F", "G", "H", "I",
      "J", "K", "L", "M", "N", "O", "P", "Q", "R", "S", "T", "U", "V", "W",
      "X", "Y", "Z", "[", "\\", "]", "^", "_", "\\x60", "a", "b", "c", "d", "e",
      "f", "g", "h", "i", "j", "k", "l", "m", "n", "o", "p", "q", "r", "s",
      "t", "u", "v", "w", "x", "y", "z", "{", "|", "}", "~">>

\* The byte with the value n, as one character of a string; the byte 0x60
\* and the bytes outside 0x20 .. 0x7E are written \xHH.
ByteChar(n) ==
    IF n >= 32 /\ n <= 126 THEN Printable[n - 31]
    ELSE "\\x" \o HexUpper[(n \div 16) + 1] \o HexUpper[(n % 16) + 1]

\* strconv.ParseUint(hx, 16, 8) on two hex digits, as a byte.
HexByte(h1, h2) == ByteChar(16 * HexVal(h1) + HexVal(h2))

\* The "%" at position p (0-based) is followed by two hex digits.
EscapeAt(str, p) ==
    /\ p + 2 < Len(str)
    /\ isHex(str[p + 2])
    /\ isHex(str[p + 3])

RECURSIVE unescapeFails(_, _)
\* url.QueryUnescape, first pass from position p on: an EscapeError.
unescapeFails(str, p) ==
    IF p >= Len(str) THEN FALSE
    ELSE IF str[p + 1] = "%"
         THEN IF EscapeAt(str, p) THEN unescapeFails(str, p + 3) ELSE TRUE
         ELSE unescapeFails(str, p + 1)

RECURSIVE unescapeFrom(_, _)
\* url.QueryUnescape, second pass from position p on, for a string the first
\* pass accepted.
unescapeFrom(str, p) ==
    IF p >= Len(str) THEN <<>>
    ELSE LET c == str[p + 1]
         IN  IF c = "%"
             THEN <<HexByte(str[p + 2], str[p + 3])>> \o unescapeFrom(str, p + 3)
             ELSE IF c = "+"
                  THEN <<" ">> \o unescapeFrom(str, p + 1)
                  ELSE <<c>> \o unescapeFrom(str, p + 1)

\* url.QueryUnescape.
QueryUnescape(str) ==
    IF unescapeFails(str, 0)
    THEN [str |-> <<>>, err |-> TRUE]
    ELSE [str |-> unescapeFrom(str, 0), err |-> FALSE]

RECURSIVE lenientFrom(_, _)
\* The loop of lenientDecode from position p on.
lenientFrom(str, p) ==
    IF p >= Len(str) THEN <<>>
    ELSE LET c == str[p + 1]
         IN  IF c = "+" THEN <<" ">> \o lenientFrom(str, p + 1)
             ELSE IF c = "%"
                  THEN IF EscapeAt(str, p)
                       THEN <<HexByte(str[p + 2], str[p + 3])>>
                                \o lenientFrom(str, p + 3)
                       ELSE <<"%">> \o lenientFrom(str, p + 1)
                  ELSE <<c>> \o lenientFrom(str, p + 1)

\* lenientDecode with its output decoded once more.
lenientDecodeTwice(str) == lenientFrom(lenientFrom(str, 0), 0)

\* lenientDecode.
lenientDecode(str) == lenientFrom(str, 0)

\* decode: the decoded string and whether an error is returned.
decode(str, strict) ==
    LET d == QueryUnescape(str)
    IN  IF ~strict
        THEN IF ~d.err THEN [str |-> d.str, err |-> FALSE]
             ELSE [str |-> lenientDecode(str), err |-> FALSE]
        ELSE IF d.err THEN [str |-> <<>>, err |-> TRUE]
             ELSE [str |-> d.str, err |-> FALSE]

\* The white space strings.TrimSpace removes.
IsSpace(c) == c \in {" ", "\t", "\n", "\r", "\\x0B", "\\x0C"}

RECURSIVE TrimLeft(_)
TrimLeft(str) ==
    IF str # <<>> /\ IsSpace(Head(str)) THEN TrimLeft(Tail(str)) ELSE str

RECURSIVE TrimRight(_)
TrimRight(str) ==
    IF str # <<>> /\ IsSpace(str[Len(str)])
    THEN TrimRight(SubSeq(str, 1, Len(str) - 1))
    ELSE str

\* strings.TrimSpace.
TrimSpace(str) == TrimRight(TrimLeft(str))

(***************************************************************************)
(* ParseStrWithOptions on a raw query: the locals of one invocation are a  *)
(* record, so that several invocations can be in progress.                 *)
(***************************************************************************)
\* The index (0-based) of the first "=" of raw at or after p, Len(raw) if none.
RECURSIVE IndexEq(_, _)
IndexEq(raw, p) ==
    IF p < Len(raw) /\ raw[p + 1] # "=" THEN IndexEq(raw, p + 1) ELSE p

\* splitPair: the key and the value of a raw pair, split at its first "=".
splitPair(raw) ==
    LET e == IndexEq(raw, 0)
    IN  IF e < Len(raw)
        THEN [k |-> SubSeq(raw, 1, e), v |-> SubSeq(raw, e + 2, Len(raw)),
              hasEq |-> TRUE]
        ELSE [k |-> raw, v |-> <<>>, hasEq |-> FALSE]

RECURSIVE splitLoop(_, _, _, _)
\* The loop of splitBySeparators: out and the builder b after the characters
\* of str from position p (1-based) on.
splitLoop(str, seps, p, acc) ==
    IF p > Len(str) THEN Append(acc.out, acc.b)
    ELSE IF \E q \in 1..Len(seps) : seps[q] = str[p]
         THEN splitLoop(str, seps, p + 1,
                        [out |-> Append(acc.out, acc.b), b |-> <<>>])
         ELSE splitLoop(str, seps, p + 1,
                        [out |-> acc.out, b |-> Append(acc.b, str[p])])

\* splitBySeparators: the segments of str, the empty ones included.
splitBySeparators(str, seps) ==
    IF str = <<>> THEN <<>>
    ELSE splitLoop(str, seps, 1, [out |-> <<>>, b |-> <<>>])

\* The value of the package variable DefaultOptions set in options.go.
DefaultOptionsValue == [Separators |-> <<"&", ";">>, StrictDecode |-> FALSE]

\* applyDefaults with the separators of the caller stored as the defaults.
applyDefaultsStored(opts, global) ==
    IF Len(opts.Separators) = 0
    THEN [opts |-> [opts EXCEPT !.Separators = global.Separators],
          global |-> global]
    ELSE [opts |-> opts,
          global |-> [global EXCEPT !.Separators = opts.Separators]]

\* The first statement of ParseStrWithOptions: the local opts and the
\* package variable DefaultOptions after it.
applyDefaults(opts, global) ==
    IF Len(opts.Separators) = 0
    THEN [opts |-> [opts EXCEPT !.Separators = global.Separators],
          global |-> global]
    ELSE [opts |-> opts, global |-> global]

\* What ParseStrWithOptions returns: a map (nil or not) and an error.
Returned(isNil, tree, err) == [nil |-> isNil, tree |-> tree, err |-> err]

NotReturned == Returned(TRUE, EmptyMap, "pending")

\* errorReturn with the map built so far returned next to the error.
errorReturnPartial(rt, what) == Returned(FALSE, rt, what)

\* The return statements of the strict branch: nil and the wrapped error.
errorReturn(rt, what) == Returned(TRUE, EmptyMap, what)

\* An invocation that has not begun: its arguments.
NewCall(q, o) ==
    [args |-> [query |-> q, opts |-> o],
     query |-> q, opts |-> o, pairs |-> <<>>, k |-> 0,
     root |-> EmptyMap, prev |-> EmptyMap, how |-> "none",
     dk |-> <<>>, dv |-> <<>>,
     pc |-> "start", ret |-> NotReturned]

\* ParseStrWithOptions up to its loop.
begin(c, global) ==
    LET o == applyDefaults(c.opts, global).opts
        q == IF c.query # <<>> /\ Head(c.query) = "?"
             THEN Tail(c.query) ELSE c.query
    IN  [c EXCEPT !.opts = o, !.query = q,
                  !.pairs = splitBySeparators(q, o.Separators),
                  !.root = EmptyMap, !.pc = "loop"]

\* What one iteration of the loop does ("how"), the root map after it and
\* the decoded, trimmed pair.
Outcome(how, newRoot, dk, dv) ==
    [how |-> how, root |-> newRoot, dk |-> dk, dv |-> dv]

\* The loop body after insert has run, or has exhausted memory.
bodyInserted(rt, dk, dv, r) ==
    IF r.fatal THEN Outcome("fatal", rt, dk, dv)
    ELSE Outcome("insert", r.root, dk, dv)

\* The loop body from the tokenized key on.
bodyTokenized(rt, dk, dv, seq) ==
    IF Len(seq) = 0 THEN Outcome("emptyKey", rt, dk, dv)
    ELSE IF Len(seq) = 1
         THEN Outcome("assign", assignPlain(rt, seq[1], dv), dk, dv)
         ELSE bodyInserted(rt, dk, dv, insert(rt, seq[1], Tail(seq), dv))

\* The loop body from the trimmed key and value on.
bodyTrimmed(rt, dk, dv) ==
    IF dk = <<>> THEN Outcome("emptyKey", rt, dk, dv)
    ELSE bodyTokenized(rt, dk, dv, tokenizeKey(dk))

\* The loop body from the decoded key and value on.
bodyDecoded(rt, strict, d0, v0) ==
    IF strict /\ d0.err THEN Outcome("errKey", rt, <<>>, <<>>)
    ELSE IF strict /\ v0.err THEN Outcome("errValue", rt, <<>>, <<>>)
    ELSE bodyTrimmed(rt, TrimSpace(d0.str), TrimSpace(v0.str))

\* The loop body from the split pair on.
bodySplit(rt, strict, kv) ==
    bodyDecoded(rt, strict, decode(kv.k, strict), decode(kv.v, strict))

\* One iteration of the loop on the raw pair raw.
loopBody(rt, raw, strict) ==
    IF raw = <<>> THEN Outcome("emptyRaw", rt, <<>>, <<>>)
    ELSE bodySplit(rt, strict, splitPair(raw))

\* The call after the iteration whose outcome is b.
iterate(c, b) ==
    LET d == [c EXCEPT !.how = b.how, !.dk = b.dk, !.dv = b.dv,
                       !.prev = c.root]
    IN  CASE b.how = "errKey" ->
               [d EXCEPT !.pc = "done",
                         !.ret = errorReturn(c.root, "decode key error")]
          [] b.how = "errValue" ->
               [d EXCEPT !.pc = "done",
                         !.ret = errorReturn(c.root, "decode value error")]
          [] b.how = "fatal" -> [d EXCEPT !.pc = "fatal"]
          [] OTHER -> [d EXCEPT !.root = b.root, !.k = c.k + 1]

\* The next step of a call that is in its loop: one iteration, or the final
\* return when the pairs are exhausted.
step(c) ==
    IF c.k >= Len(c.pairs)
    THEN [c EXCEPT !.pc = "done", !.how = "return",
                   !.ret = Returned(FALSE, c.root, "nil")]
    ELSE iterate(c, loopBody(c.root, c.pairs[c.k + 1], c.opts.StrictDecode))

(***************************************************************************)
(* decode on its own: one call on a string, strict or not.                 *)
(***************************************************************************)
MaxDecLen == 5     \* length of the strings given to decode

\* The characters of the strings given to decode: "%", "+", hex digits in
\* both cases and a character that is not a hex digit.
DecAlphabet == {"%", "+", "2", "5", "B", "b", "Z"}

DecInputs == UNION {[1..n -> DecAlphabet] : n \in 0..MaxDecLen}

DecInit ==
    /\ decS \in DecInputs
    /\ decStrict \in BOOLEAN
    /\ decOut = <<>>
    /\ decErr = FALSE
    /\ decPc = "call"

DecReturn ==
    /\ decOut' = decode(decS, decStrict).str
    /\ decErr' = decode(decS, decStrict).err
    /\ decPc' = "done"
    /\ UNCHANGED <<decS, decStrict, parseVars, tokVars, callVars>>

\* strict is false and url.QueryUnescape succeeds.
DecodeFast ==
    /\ decPc = "call"
    /\ ~decStrict
    /\ ~QueryUnescape(decS).err
    /\ DecReturn

\* strict is false and url.QueryUnescape fails: lenientDecode.
DecodeLenient ==
    /\ decPc = "call"
    /\ ~decStrict
    /\ QueryUnescape(decS).err
    /\ DecReturn

\* strict is true and url.QueryUnescape succeeds.
DecodeStrict ==
    /\ decPc = "call"
    /\ decStrict
    /\ ~QueryUnescape(decS).err
    /\ DecReturn

\* strict is true and url.QueryUnescape fails: the error is returned.
DecodeStrictError ==
    /\ decPc = "call"
    /\ decStrict
    /\ QueryUnescape(decS).err
    /\ DecReturn

InitDec == ParseIdle /\ TokIdle /\ CallIdle /\ DecInit

NextDec == DecodeFast \/ DecodeLenient \/ DecodeStrict \/ DecodeStrictError

SpecDec == InitDec /\ [][NextDec]_vars

(***************************************************************************)
(* One call of ParseStrWithOptions on a raw query.                         *)
(***************************************************************************)
MaxSegs == 2       \* segments of a raw query

\* The segments raw queries are made of.
RawSegs ==
    { <<>>,
      <<"a", "=", "x">>,
      <<"b">>,
      <<"?", "a", "=", "y">>,
      <<"a", "[", "]", "=", "y">>,
      <<"a", "[", "%", "5", "D", "]", "=", "x">>,
      <<"a", "[", "%", "5", "B", "]", "=", "y">>,
      <<"a", "[", "9", "]", "=", "x">>,
      <<"=", "x">>,
      <<"+", "%", "2", "0", "=", "x">>,
      <<"[", "a", "]", "=", "x">>,
      <<"a", "=", "%", "Z">>,
      <<"%", "=", "%", "Z">> }

RECURSIVE JoinSegs(_)
\* The segments joined by "&".
JoinSegs(segs) ==
    IF segs = <<>> THEN <<>>
    ELSE IF Len(segs) = 1 THEN segs[1]
    ELSE segs[1] \o <<"&">> \o JoinSegs(Tail(segs))

RawQueries ==
    {JoinSegs(segs) : segs \in UNION {[1..n -> RawSegs] : n \in 0..MaxSegs}}

\* The options of the call: the defaults of ParseStr, or strict decoding
\* with "&" as the only separator.
RawOpts ==
    { [Separators |-> <<>>, StrictDecode |-> FALSE],
      [Separators |-> <<"&">>, StrictDecode |-> TRUE] }

CallInit ==
    /\ DefaultOptions = DefaultOptionsValue
    /\ call \in {NewCall(q, o) : q \in RawQueries, o \in RawOpts}
    /\ calls = <<>>

\* The head of ParseStrWithOptions: the options, the "?" and the split.
Begin ==
    /\ call.pc = "start"
    /\ call' = begin(call, DefaultOptions)
    /\ DefaultOptions' = applyDefaults(call.opts, DefaultOptions).global
    /\ UNCHANGED <<calls, parseVars, tokVars, decVars>>

\* The call is in its loop and has a pair left.
InLoop == call.pc = "loop" /\ call.k < Len(call.pairs)

\* The outcome of the loop body on the next pair of the call.
CallBody ==
    loopBody(call.root, call.pairs[call.k + 1], call.opts.StrictDecode)

\* The iteration with the outcome b, when it does what "how" names.
Iteration(how, b) ==
    /\ b.how = how
    /\ call' = iterate(call, b)
    /\ UNCHANGED <<DefaultOptions, calls, parseVars, tokVars, decVars>>

\* raw == "": continue.
SkipEmptyRaw ==
    /\ InLoop
    /\ Iteration("emptyRaw", CallBody)

\* Strict decoding and a key that does not decode: return nil, error.
KeyDecodeError ==
    /\ InLoop
    /\ Iteration("errKey", CallBody)

\* Strict decoding and a value that does not decode: return nil, error.
ValueDecodeError ==
    /\ InLoop
    /\ Iteration("errValue", CallBody)

\* dk == "": continue.
SkipEmptyKey ==
    /\ InLoop
    /\ Iteration("emptyKey", CallBody)

\* No tokens: root[base] = dv.
RawAssign ==
    /\ InLoop
    /\ Iteration("assign", CallBody)

\* Tokens: insert(root, base, tokens, dv).
RawInsert ==
    /\ InLoop
    /\ Iteration("insert", CallBody)

\* Tokens, and insert asks growSlice for more than memory holds.
RawInsertFatal ==
    /\ InLoop
    /\ Iteration("fatal", CallBody)

\* The end of the loop: return root, nil.
Return ==
    /\ call.pc = "loop"
    /\ call.k >= Len(call.pairs)
    /\ call' = step(call)
    /\ UNCHANGED <<DefaultOptions, calls, parseVars, tokVars, decVars>>

InitRaw == ParseIdle /\ TokIdle /\ DecIdle /\ CallInit

NextRaw ==
    \/ Begin
    \/ SkipEmptyRaw
    \/ KeyDecodeError
    \/ ValueDecodeError
    \/ SkipEmptyKey
    \/ RawAssign
    \/ RawInsert
    \/ RawInsertFatal
    \/ Return

SpecRaw == InitRaw /\ [][NextRaw]_vars

(***************************************************************************)
(* Two calls of ParseStrWithOptions in progress together: their steps are  *)
(* interleaved in any order.                                               *)
(***************************************************************************)
Callers == {1, 2}

\* The segments the queries of the two calls are made of.
TwoSegs ==
    { <<"a", "=", "x">>,
      <<"a", "[", "]", "=", "y", ";", "b", "=", "x">> }

TwoQueries ==
    {JoinSegs(segs) : segs \in UNION {[1..n -> TwoSegs] : n \in 0..MaxSegs}}

\* The options of a call: the default separators, or "&" alone.
TwoOpts ==
    { [Separators |-> <<>>, StrictDecode |-> FALSE],
      [Separators |-> <<"&">>, StrictDecode |-> FALSE] }

TwoInit ==
    /\ DefaultOptions = DefaultOptionsValue
    /\ call = [pc |-> "idle"]
    /\ calls \in [Callers -> {NewCall(q, o) : q \in TwoQueries, o \in TwoOpts}]

\* The head of ParseStrWithOptions in the call id.
BeginCall(id) ==
    /\ calls[id].pc = "start"
    /\ calls' = [calls EXCEPT ![id] = begin(calls[id], DefaultOptions)]
    /\ DefaultOptions' = applyDefaults(calls[id].opts, DefaultOptions).global
    /\ UNCHANGED <<call, parseVars, tokVars, decVars>>

\* One iteration of the loop in the call id.
IterateCall(id) ==
    /\ calls[id].pc = "loop"
    /\ calls[id].k < Len(calls[id].pairs)
    /\ calls' = [calls EXCEPT ![id] = step(calls[id])]
    /\ UNCHANGED <<DefaultOptions, call, parseVars, tokVars, decVars>>

\* The return of the call id.
ReturnCall(id) ==
    /\ calls[id].pc = "loop"
    /\ calls[id].k >= Len(calls[id].pairs)
    /\ calls' = [calls EXCEPT ![id] = step(calls[id])]
    /\ UNCHANGED <<DefaultOptions, call, parseVars, tokVars, decVars>>

InitTwo == ParseIdle /\ TokIdle /\ DecIdle /\ TwoInit

NextTwo ==
    \E id \in Callers :
        \/ BeginCall(id)
        \/ IterateCall(id)
        \/ ReturnCall(id)

SpecTwo == InitTwo /\ [][NextTwo]_vars

(***************************************************************************)
(* The pair the loop applied last, and the places its tokens acted on.     *)
(***************************************************************************)
PairBase(pr) == Tokenized[pr[1]][1]
PairTokens(pr) == Tail(Tokenized[pr[1]])

\* The last pair has been applied completely.
Applied == pc = "loop" /\ pairs # <<>>

LastPair == pairs[Len(pairs)]
LastBase == PairBase(LastPair)
LastTokens == PairTokens(LastPair)
LastValue == LastPair[2]

A1 == <<"a">>
AppendKey == Key(A1, << <<>> >>)

\* The slot of a container that a literal token addresses, if it has one.
HasSlot(nd, tok) ==
    \/ IsMapping(nd) /\ tok \in DOMAIN nd.val
    \/ /\ IsSequence(nd)
       /\ isNumeric(tok)
       /\ Len(StripZeros(tok)) = 1
       /\ DecToNat(StripZeros(tok)) < Len(nd.val)

SlotOf(nd, tok) ==
    IF IsMapping(nd) THEN nd.val[tok] ELSE nd.val[DecToNat(StripZeros(tok)) + 1]

\* The first token of the last pair acted on the container held at the base.
AtBase ==
    /\ Applied
    /\ LastTokens # <<>>
    /\ LastBase \in DOMAIN prev
    /\ ~IsScalar(prev[LastBase])

\* The second token of the last pair acted on an existing container one
\* level below the base.
AtChild ==
    /\ AtBase
    /\ Len(LastTokens) = 2
    /\ HasSlot(prev[LastBase], LastTokens[1])
    /\ ~IsScalar(SlotOf(prev[LastBase], LastTokens[1]))
    /\ ~IsHole(SlotOf(prev[LastBase], LastTokens[1]))

\* The places where a token of the last pair was applied to an existing
\* container: the container before, the container after, the token, and
\* whether the token was the leaf.
Sites ==
    (IF AtBase
     THEN {[pre |-> prev[LastBase], post |-> root[LastBase],
            tok |-> LastTokens[1], leaf |-> Len(LastTokens) = 1]}
     ELSE {})
    \cup
    (IF AtChild
     THEN {[pre |-> SlotOf(prev[LastBase], LastTokens[1]),
            post |-> SlotOf(root[LastBase], LastTokens[1]),
            tok |-> LastTokens[2], leaf |-> TRUE]}
     ELSE {})

IsAssoc(tok) == tok # <<>> /\ ~isNumeric(tok)

(***************************************************************************)
(* C1: a pair whose key has no bracket tokens sets root[base] to its value *)
(* whatever root[base] held; after any sequence of pairs, a base whose     *)
(* last pair was a plain one holds exactly that pair's value.              *)
(***************************************************************************)
\* The index of the last pair whose base is b.
LastTouch(b) ==
    CHOOSE j \in 1..Len(pairs) :
        /\ PairBase(pairs[j]) = b
        /\ \A q \in (j + 1)..Len(pairs) : PairBase(pairs[q]) # b

C1_PlainLastWins ==
    Applied =>
        \A b \in {PairBase(pairs[j]) : j \in 1..Len(pairs)} :
            PairTokens(pairs[LastTouch(b)]) = <<>> =>
                /\ b \in DOMAIN root
                /\ root[b] = Scalar(pairs[LastTouch(b)][2])

C1_Witness ==
    /\ Applied
    /\ LastTokens = <<>>
    /\ LastBase \in DOMAIN prev
    /\ IsMapping(prev[LastBase])
    /\ root[LastBase] = Scalar(LastValue)

(***************************************************************************)
(* C2: an empty leaf token applied to a slice of length L adds exactly one *)
(* element, the value, at index L and leaves the others unchanged; k pairs *)
(* a[]=v1 .. a[]=vk on an absent base give [v1, .., vk].                   *)
(***************************************************************************)
C2_AppendInOrder ==
    /\ \A st \in Sites :
          (IsSequence(st.pre) /\ st.tok = <<>> /\ st.leaf) =>
              st.post = Sequence(st.pre.val \o <<Scalar(LastValue)>>)
    /\ (Applied /\ \A j \in 1..Len(pairs) : pairs[j][1] = AppendKey) =>
          root = (A1 :> Sequence([j \in 1..Len(pairs) |-> Scalar(pairs[j][2])]))

C2_Witness ==
    /\ Applied
    /\ Len(pairs) = 3
    /\ \A j \in 1..3 : pairs[j][1] = AppendKey
    /\ pairs[1][2] # pairs[2][2]
    /\ Len(root[A1].val) = 3

(***************************************************************************)
(* C3: a numeric leaf token n applied to a slice of length L sets index n  *)
(* to the value; the slice grows to length n+1 when n >= L, the new        *)
(* positions L..n-1 are holes, and the other positions are unchanged.      *)
(***************************************************************************)
C3_NumericLeaf ==
    \A st \in Sites :
        (IsSequence(st.pre) /\ isNumeric(st.tok) /\ st.leaf) =>
            LET n == DecToNat(StripZeros(st.tok))
                L == Len(st.pre.val)
            IN  /\ IsSequence(st.post)
                /\ Len(st.post.val) = (IF n >= L THEN n + 1 ELSE L)
                /\ st.post.val[n + 1] = Scalar(LastValue)
                /\ \A p \in 1..L : p # n + 1 => st.post.val[p] = st.pre.val[p]
                /\ \A p \in (L + 1)..n : st.post.val[p] = Hole

C3_Witness ==
    /\ \E st \in Sites :
          /\ IsSequence(st.pre) /\ isNumeric(st.tok) /\ st.leaf
          /\ Len(st.pre.val) = 1
          /\ st.tok = <<"2">>
          /\ st.post.val[2] = Hole
          /\ Len(st.post.val) = 3

(***************************************************************************)
(* C4: a pair with tokens applied to a base that holds Scalar(s): when the *)
(* first token is empty or numeric the base becomes the slice [s] and the  *)
(* tokens are applied to it (s stays at index 0 under an append or an      *)
(* index n > 0); when the first token is associative the base becomes a    *)
(* map holding only what the pair writes.                                  *)
(***************************************************************************)
OnScalarBase ==
    /\ Applied
    /\ LastTokens # <<>>
    /\ LastBase \in DOMAIN prev
    /\ IsScalar(prev[LastBase])

Without(rt, b) == [k \in (DOMAIN rt) \ {b} |-> rt[k]]

C4_ScalarAtBase ==
    OnScalarBase =>
        LET first == LastTokens[1]
            sc == prev[LastBase]
            now == root[LastBase]
        IN  IF first = <<>> \/ isNumeric(first)
            THEN /\ IsSequence(now)
                 /\ root = insert(MapSet(prev, LastBase, Sequence(<<sc>>)),
                                  LastBase, LastTokens, LastValue).root
                 /\ first = <<>> =>
                       Len(now.val) = 2 /\ now.val[1] = sc
                 /\ (isNumeric(first) /\ DecToNat(StripZeros(first)) > 0) =>
                       /\ Len(now.val) = DecToNat(StripZeros(first)) + 1
                       /\ now.val[1] = sc
                 /\ LastTokens = << <<>> >> =>
                       now = Sequence(<<sc, Scalar(LastValue)>>)
            ELSE /\ IsMapping(now)
                 /\ DOMAIN now.val = {first}
                 /\ root = insert(Without(prev, LastBase),
                                  LastBase, LastTokens, LastValue).root

C4_Witness ==
    /\ OnScalarBase
    /\ LastTokens = << <<"2">> >>
    /\ root[LastBase].val[1] = prev[LastBase]
    /\ root[LastBase].val[3] = Scalar(LastValue)
    /\ LastValue # prev[LastBase].val

(***************************************************************************)
(* C5: an associative token applied to a slice of length L turns it into a *)
(* map with, for every index i < L, the entry "i" holding what the slice   *)
(* held at i (a hole stays a hole), plus the entry written for the token.  *)
(***************************************************************************)
IndexKey(p) == Itoa(IntOfNat(p - 1))

C5_Pairs ==
    << <<AppendKey, <<"x">> >>,
       <<Key(A1, << <<"2">> >>), <<"y">> >>,
       <<Key(A1, << <<"b">> >>), <<"x">> >> >>

RECURSIVE NoHoleInMaps(_)
NoHoleInMaps(nd) ==
    IF IsMapping(nd)
    THEN \A k \in DOMAIN nd.val :
            ~IsHole(nd.val[k]) /\ NoHoleInMaps(nd.val[k])
    ELSE IF IsSequence(nd)
         THEN \A p \in 1..Len(nd.val) : NoHoleInMaps(nd.val[p])
         ELSE TRUE

C6_HolesDropped ==
    /\ \A st \in Sites :
          (IsSequence(st.pre) /\ IsAssoc(st.tok)) =>
              \A p \in 1..Len(st.pre.val) :
                  IF IsHole(st.pre.val[p])
                  THEN IndexKey(p) \notin DOMAIN st.post.val
                  ELSE /\ IndexKey(p) \in DOMAIN st.post.val
                       /\ st.post.val[IndexKey(p)] = st.pre.val[p]
    /\ \A b \in DOMAIN root : NoHoleInMaps(root[b])

\* C6 as the code has it: the holes are kept.  Every element of the slice,
\* hole or not, becomes an entry, so the map has L + 1 entries and an
\* index that was a hole is a key whose value is a hole.
C6_HolesKept ==
    \A st \in Sites :
        (IsSequence(st.pre) /\ IsAssoc(st.tok)) =>
            /\ Cardinality(DOMAIN st.post.val) = Len(st.pre.val) + 1
            /\ \A p \in 1..Len(st.pre.val) :
                  IsHole(st.pre.val[p]) =>
                      /\ IndexKey(p) \in DOMAIN st.post.val
                      /\ IsHole(st.post.val[IndexKey(p)])

C6_Witness ==
    /\ Len(pairs) = 2
    /\ \E st \in Sites :
          /\ IsSequence(st.pre) /\ IsAssoc(st.tok)
          /\ \E p \in 1..Len(st.pre.val) :
                IsHole(st.pre.val[p]) /\ IsHole(st.post.val[IndexKey(p)])

(***************************************************************************)
(* C7: an empty token applied to a map uses as key the decimal string of   *)
(* 1 + the largest integer value among the digit-only keys, whatever their *)
(* length, or "0" when there is none; the key is a digit-only string and   *)
(* the existing entries are unchanged.                                     *)
(***************************************************************************)
\* The largest of a non-empty set of canonical decimal numbers.
DecMax(S) == CHOOSE x \in S : \A y \in S : ~DecLess(x, y)

\* 1 + the largest integer value among the digit-only keys, in decimal.
NextDecimalKey(f) ==
    LET nums == {StripZeros(k) : k \in {q \in DOMAIN f : isNumeric(q)}}
    IN  IF nums = {} THEN <<"0">> ELSE DecSucc(DecMax(nums))

C7_AutoIndexKey ==
    \A st \in Sites :
        (IsMapping(st.pre) /\ st.tok = <<>>) =>
            LET key == NextDecimalKey(st.pre.val)
            IN  /\ IsMapping(st.post)
                /\ isNumeric(key)
                /\ DOMAIN st.post.val = (DOMAIN st.pre.val) \cup {key}
                /\ \A k \in DOMAIN st.pre.val : st.post.val[k] = st.pre.val[k]
                /\ st.leaf => st.post.val[key] = Scalar(LastValue)

(***************************************************************************)
(* C8: a map never reverts to a slice: applying a pair with tokens changes *)
(* no map, at the base or below it, into a slice; a numeric token applied  *)
(* to a map is its literal key and an empty token adds an entry to it.     *)
(***************************************************************************)
RECURSIVE NoRevert(_, _)
\* No map of old is a slice at the same place of new.
NoRevert(old, new) ==
    IF IsMapping(old)
    THEN /\ ~IsSequence(new)
         /\ IsMapping(new) =>
               \A k \in (DOMAIN old.val) \cap (DOMAIN new.val) :
                   NoRevert(old.val[k], new.val[k])
    ELSE IF IsSequence(old)
         THEN /\ IsSequence(new) =>
                    \A p \in 1..Len(old.val) :
                        p <= Len(new.val) => NoRevert(old.val[p], new.val[p])
              /\ IsMapping(new) =>
                    \A p \in 1..Len(old.val) :
                        IndexKey(p) \in DOMAIN new.val =>
                            NoRevert(old.val[p], new.val[IndexKey(p)])
         ELSE TRUE

C8_Pairs ==
    << <<Key(A1, << <<"b">> >>), <<"x">> >>,
       <<Key(A1, << <<"0">> >>), <<"y">> >>,
       <<AppendKey, <<"x">> >> >>

C8_MapStaysMap ==
    /\ (Applied /\ LastTokens # <<>> /\ LastBase \in DOMAIN prev) =>
          NoRevert(prev[LastBase], root[LastBase])
    /\ \A st \in Sites :
          IsMapping(st.pre) =>
              /\ IsMapping(st.post)
              /\ (DOMAIN st.pre.val) \subseteq (DOMAIN st.post.val)
              /\ isNumeric(st.tok) =>
                    /\ DOMAIN st.post.val = (DOMAIN st.pre.val) \cup {st.tok}
                    /\ st.leaf => st.post.val[st.tok] = Scalar(LastValue)
    /\ (Applied /\ pairs = C8_Pairs) =>
          root = (A1 :> Mapping(<<"b">> :> Scalar(<<"x">>)
                                @@ <<"0">> :> Scalar(<<"y">>)
                                @@ <<"1">> :> Scalar(<<"x">>)))

C8_Witness ==
    /\ Applied
    /\ LastTokens = << <<"b">>, <<"0">> >>
    /\ \E st \in Sites :
          /\ IsMapping(st.pre) /\ st.tok = <<"0">> /\ st.leaf
          /\ IsMapping(st.post)
          /\ <<"0">> \notin DOMAIN st.pre.val
          /\ st.post.val[<<"0">>] = Scalar(LastValue)

(***************************************************************************)
(* C9: a pair whose tokens are all associative, applied along a path of    *)
(* existing maps, sets the leaf key to the value (overwriting what the key *)
(* held) and leaves every other entry of every map on the path unchanged.  *)
(***************************************************************************)
RECURSIVE PathOfMaps(_, _)
\* Every token but the last leads from a map to a map.
PathOfMaps(nd, toks) ==
    /\ IsMapping(nd)
    /\ Len(toks) > 1 =>
          /\ toks[1] \in DOMAIN nd.val
          /\ PathOfMaps(nd.val[toks[1]], Tail(toks))

RECURSIVE SetLeaf(_, _, _)
\* The map nd with only the entry at the end of the path toks changed.
SetLeaf(nd, toks, v) ==
    IF Len(toks) = 1
    THEN Mapping(MapSet(nd.val, toks[1], v))
    ELSE Mapping([nd.val EXCEPT
                    ![toks[1]] = SetLeaf(nd.val[toks[1]], Tail(toks), v)])

C9_Pairs ==
    << <<Key(A1, << <<"b">>, <<"c">> >>), <<"x">> >>,
       <<Key(A1, << <<"b">>, <<"e">> >>), <<"y">> >> >>

C9_AssocMerge ==
    /\ ( /\ Applied
         /\ LastTokens # <<>>
         /\ \A p \in 1..Len(LastTokens) : IsAssoc(LastTokens[p])
         /\ LastBase \in DOMAIN prev
         /\ PathOfMaps(prev[LastBase], LastTokens) ) =>
          root = [prev EXCEPT ![LastBase] =
                     SetLeaf(prev[LastBase], LastTokens, Scalar(LastValue))]
    /\ (Applied /\ pairs = C9_Pairs) =>
          root = (A1 :> Mapping(<<"b">> :>
                      Mapping(<<"c">> :> Scalar(<<"x">>)
                              @@ <<"e">> :> Scalar(<<"y">>))))

C9_Witness ==
    /\ Applied
    /\ pairs = C9_Pairs
    /\ PathOfMaps(prev[LastBase], LastTokens)
    /\ DOMAIN root[A1].val[<<"b">>].val = {<<"c">>, <<"e">>}

(***************************************************************************)
(* C10: a "[" with no "]" anywhere after it emits no token: "_" is added   *)
(* to the base and the characters after it are scanned as base text, also  *)
(* when tokens were emitted before it.                                     *)
(***************************************************************************)
\* Position p (1-based) of str holds a "[" with no "]" after it.
OpenUnmatched(str, p) ==
    /\ str[p] = "["
    /\ \A q \in (p + 1)..Len(str) : str[q] # "]"

HasOpenUnmatched(str) == \E p \in 1..Len(str) : OpenUnmatched(str, p)

FirstOpenUnmatched(str) ==
    CHOOSE p \in 1..Len(str) :
        /\ OpenUnmatched(str, p)
        /\ \A q \in 1..(p - 1) : ~OpenUnmatched(str, q)

\* Base text for the part of a key from its first unmatched "[" on.
AsBaseText(str) ==
    [p \in 1..Len(str) |-> IF str[p] = "[" THEN "_" ELSE str[p]]

C10_UnmatchedOpen ==
    /\ (tpc = "done" /\ HasOpenUnmatched(s)) =>
          LET p0 == FirstOpenUnmatched(s)
              before == tokenizeKey(SubSeq(s, 1, p0 - 1))
              baseBefore == IF before = <<>> THEN <<>> ELSE before[1]
              toksBefore == IF before = <<>> THEN <<>> ELSE Tail(before)
          IN  res = <<baseBefore \o AsBaseText(SubSeq(s, p0, Len(s)))>>
                        \o toksBefore
    /\ (tpc = "done" /\ s = <<"a", "[", "b">>) => res = << <<"a", "_", "b">> >>
    /\ (tpc = "done" /\ s = <<"a", "[", "b", "]", "[">>) =>
          res = << <<"a", "_">>, <<"b">> >>

C10_Witness ==
    /\ tpc = "done"
    /\ s = <<"a", "[", "b", "]", "[">>
    /\ HasOpenUnmatched(s)
    /\ res = << <<"a", "_">>, <<"b">> >>

(***************************************************************************)
(* The tokenizer's result read off the key: which characters of a key are  *)
(* base text.                                                              *)
(***************************************************************************)
\* The "]" at position p closes a matched "[" or follows a matched pair
\* immediately: a "[" lies before it and the "]" between the two, if any,
\* form one run that ends right before p.
Closes(str, p) ==
    \E q \in 1..(p - 1) :
        /\ str[q] = "["
        /\ \A t \in (q + 1)..(p - 1) :
              str[t] = "]" => \A u \in t..(p - 1) : str[u] = "]"

\* The "]" at position p is a stray one.
StrayClose(str, p) == str[p] = "]" /\ ~Closes(str, p)

\* The character at position p lies between a "[" and the "]" that closes it.
InsidePair(str, p) ==
    /\ \E q \in 1..(p - 1) :
          str[q] = "[" /\ \A t \in q..p : str[t] # "]"
    /\ \E u \in (p + 1)..Len(str) : str[u] = "]"

\* The character at position p is written to the base.
BasePos(str, p) ==
    IF str[p] = "]" THEN StrayClose(str, p)
    ELSE IF str[p] = "[" THEN \A u \in (p + 1)..Len(str) : str[u] # "]"
    ELSE ~InsidePair(str, p)

\* The number of base characters among the first p characters of the key.
BaseRank(str, p) == Cardinality({q \in 1..p : BasePos(str, q)})

RemoveAt(str, p) == SubSeq(str, 1, p - 1) \o SubSeq(str, p + 1, Len(str))

\* The "]" at position p follows a matched pair immediately.
ExtraClose(str, p) ==
    /\ p > 1
    /\ str[p] = "]"
    /\ str[p - 1] = "]"
    /\ Closes(str, p)

C12_ExtraCloseDiscarded ==
    /\ tpc = "done" =>
          \A p \in 1..Len(s) :
              ExtraClose(s, p) => res = tokenizeKey(RemoveAt(s, p))
    /\ (tpc = "done" /\ s = <<"a", "[", "b", "]", "]">>) =>
          res = << <<"a">>, <<"b">> >>
    /\ (tpc = "done" /\ s = <<"[", "b", "]", "]", "a">>) =>
          res = << <<"a">>, <<"b">> >>
    /\ (tpc = "done" /\ s = <<"[", "]", "]", "[", "]">>) =>
          res = << <<>>, <<>>, <<>> >>

C12_Witness ==
    /\ tpc = "done"
    /\ s = <<"[", "]", "]", "[", "]">>
    /\ ExtraClose(s, 3)
    /\ res = << <<>>, <<>>, <<>> >>

(***************************************************************************)
(* C13: the base is the portion of the key before its first bracket token: *)
(* no character after the first emitted token contributes to the base.     *)
(***************************************************************************)
\* Position p holds a "[" that has a "]" after it.
OpenMatched(str, p) ==
    str[p] = "[" /\ \E u \in (p + 1)..Len(str) : str[u] = "]"

\* The key up to its first bracket token; the whole key when it has none.
BeforeFirstToken(str) ==
    IF \E p \in 1..Len(str) : OpenMatched(str, p)
    THEN SubSeq(str, 1,
                (CHOOSE p \in 1..Len(str) :
                    /\ OpenMatched(str, p)
                    /\ \A q \in 1..(p - 1) : ~OpenMatched(str, q)) - 1)
    ELSE str

BaseText(str) ==
    LET ps == {p \in 1..Len(str) : BasePos(str, p)}
    IN  [r \in 1..Cardinality(ps) |->
            LET p == CHOOSE q \in ps : BaseRank(str, q) = r
            IN  IF str[p] = "[" THEN "_" ELSE str[p]]

EscapeStart(str, p) ==
    /\ str[p] = "%"
    /\ p + 2 <= Len(str)
    /\ isHex(str[p + 1])
    /\ isHex(str[p + 2])

\* Position p holds one of the two hex digits of an escape.
EscapeDigit(str, p) ==
    \E q \in {p - 2, p - 1} : q >= 1 /\ EscapeStart(str, q)

\* What the character at position p gives in the output.
DecodedUnit(str, p) ==
    IF EscapeStart(str, p) THEN HexByte(str[p + 1], str[p + 2])
    ELSE IF str[p] = "+" THEN " "
    ELSE str[p]

\* The output read off the input: one character for each position that is
\* not a digit of an escape.
DecodedOnce(str) ==
    LET ps == {p \in 1..Len(str) : ~EscapeDigit(str, p)}
    IN  [r \in 1..Cardinality(ps) |->
            DecodedUnit(str,
                CHOOSE p \in ps : Cardinality({q \in ps : q <= p}) = r)]

CallApplied == call.pc = "loop" /\ call.how \in {"assign", "insert"}

\* The raw pair of the last iteration.
CallRaw == call.pairs[call.k]

\* The text of a string literal, one character each.
EncClose == <<"a", "[", "%", "5", "D", "]", "=", "x">>
EncOpen == <<"a", "[", "%", "5", "B", "]", "=", "y">>

(***************************************************************************)
(* C14: the bracket tokens are delimited on the raw key, and the base and  *)
(* each token are decoded afterwards, so that an encoded bracket inside a  *)
(* token is token text: a[%5D]=x gives {a: {"]": x}} and a[%5B]=y gives    *)
(* {a: {"[": y}}.                                                          *)
(***************************************************************************)
\* Each string of seq decoded.
DecodeEach(seq, strict) ==
    [p \in 1..Len(seq) |-> decode(seq[p], strict).str]

\* The iteration with the key tokenized before it is decoded: the base and
\* the tokens are decoded one by one.
loopBodyRawFirst(rt, raw, strict) ==
    bodyTokenized(rt, <<>>,
                  TrimSpace(decode(splitPair(raw).v, strict).str),
                  DecodeEach(tokenizeKey(TrimSpace(splitPair(raw).k)), strict))

C14_RawKeyDelimited ==
    /\ CallApplied =>
          call.root = loopBodyRawFirst(call.prev, CallRaw,
                                       call.opts.StrictDecode).root
    /\ (call.pc = "done" /\ call.args.query = EncClose) =>
          call.ret.tree =
              (<<"a">> :> Mapping(<<"]">> :> Scalar(<<"x">>)))
    /\ (call.pc = "done" /\ call.args.query = EncOpen) =>
          call.ret.tree =
              (<<"a">> :> Mapping(<<"[">> :> Scalar(<<"y">>)))

(***************************************************************************)
(* C15: with StrictDecode true, when a non-empty segment has a malformed   *)
(* percent-escape in its key or in its value, the call returns nil, never  *)
(* the tree built so far, and an error that tells a key from a value: the  *)
(* one of the first such segment, the key being looked at first.           *)
(***************************************************************************)
\* Some "%" of str is not followed by two hex digits.
Malformed(str) ==
    \E p \in 1..Len(str) : str[p] = "%" /\ ~EscapeStart(str, p)

\* The segments of the call that do not decode.
BadSegs ==
    {j \in 1..Len(call.pairs) :
        /\ call.pairs[j] # <<>>
        /\ \/ Malformed(splitPair(call.pairs[j]).k)
           \/ Malformed(splitPair(call.pairs[j]).v)}

FirstBadSeg == CHOOSE j \in BadSegs : \A q \in BadSegs : j <= q

C15_StrictNoPartial ==
    (call.pc = "done" /\ call.opts.StrictDecode) =>
        IF BadSegs = {}
        THEN call.ret = Returned(FALSE, call.root, "nil")
        ELSE /\ call.ret.nil
             /\ call.ret.tree = EmptyMap
             /\ call.ret.err =
                    (IF Malformed(splitPair(call.pairs[FirstBadSeg]).k)
                     THEN "decode key error"
                     ELSE "decode value error")

C15_Witness ==
    /\ call.pc = "done"
    /\ call.opts.StrictDecode
    /\ BadSegs = {2}
    /\ call.root # EmptyMap
    /\ call.ret.nil
    /\ call.ret.err = "decode value error"

(***************************************************************************)
(* C17: empty keys are ignored: the tree a call returns has no entry under *)
(* the empty base key, and an empty segment or a pair whose key is empty   *)
(* after decoding and trimming leaves the tree as it was.                  *)
(***************************************************************************)
C17_NoEmptyBaseKey ==
    /\ (call.pc = "done" /\ ~call.ret.nil) =>
          <<>> \notin DOMAIN call.ret.tree
    /\ (call.pc = "loop" /\ call.how \in {"emptyRaw", "emptyKey"}) =>
          call.root = call.prev

(***************************************************************************)
(* C18: a numeric token applied to a slice never fails, however large the  *)
(* number, and writes the slot whose index is the integer value of the     *)
(* token: after base[N]=x on an absent base the slice has length N+1 and   *)
(* its element N is x.                                                     *)
(***************************************************************************)
C18_NumericIndexExact ==
    ( /\ pairs # <<>>
      /\ Len(LastTokens) = 1
      /\ isNumeric(LastTokens[1])
      /\ LastBase \notin DOMAIN prev ) =>
        /\ pc = "loop"
        /\ IsSequence(root[LastBase])
        /\ NatToDec(Len(root[LastBase].val) - 1) = StripZeros(LastTokens[1])
        /\ root[LastBase].val[Len(root[LastBase].val)] = Scalar(LastValue)

(***************************************************************************)
(* C20: when the walk descends through a slot, a map entry or a slice      *)
(* index, that holds a string, the slot is replaced by a new container     *)
(* chosen by the next token (empty or numeric: slice, otherwise map) that  *)
(* holds only what the pair writes: the string is discarded, not kept as   *)
(* element 0.  The other slots stay as they were.                          *)
(***************************************************************************)
\* The second token of the last pair was applied to a slot, one level below
\* the base, that held a string.
ThroughScalar ==
    /\ AtBase
    /\ Len(LastTokens) = 2
    /\ HasSlot(prev[LastBase], LastTokens[1])
    /\ IsScalar(SlotOf(prev[LastBase], LastTokens[1]))

\* The key or the position of the slot that a literal token addresses.
SlotKey(nd, tok) ==
    IF IsMapping(nd) THEN tok ELSE DecToNat(StripZeros(tok)) + 1

\* The container that holds only the value, under the leaf token tok.
OnlyValue(tok, v) ==
    IF tok = <<>> THEN Sequence(<<Scalar(v)>>)
    ELSE IF isNumeric(tok)
         THEN Sequence([p \in 1..(DecToNat(StripZeros(tok)) + 1) |->
                           IF p = DecToNat(StripZeros(tok)) + 1
                           THEN Scalar(v) ELSE Hole])
         ELSE Mapping(tok :> Scalar(v))

C20_Pairs ==
    << <<Key(A1, << <<"b">> >>), <<"x">> >>,
       <<Key(A1, << <<"b">>, <<>> >>), <<"y">> >> >>

C20_ScalarBelowBase ==
    /\ ThroughScalar =>
          LET pre == prev[LastBase]
              post == root[LastBase]
              tok == LastTokens[1]
          IN  /\ post.kind = pre.kind
              /\ SlotOf(post, tok) = OnlyValue(LastTokens[2], LastValue)
              /\ DOMAIN post.val = DOMAIN pre.val
              /\ \A q \in DOMAIN pre.val :
                    q # SlotKey(pre, tok) => post.val[q] = pre.val[q]
    /\ (Applied /\ pairs = C20_Pairs) =>
          root = (A1 :> Mapping(<<"b">> :> Sequence(<<Scalar(<<"y">>)>>)))

C20_Witness ==
    /\ Applied
    /\ pairs = C20_Pairs
    /\ ThroughScalar
    /\ root[A1].val[<<"b">>] = Sequence(<<Scalar(<<"y">>)>>)

(***************************************************************************)
(* C19: no state is shared between calls: whatever the order in which the  *)
(* steps of two calls are interleaved, each call is, at every step, where  *)
(* it would be had it run alone on its query and options, it returns the   *)
(* same tree, and the package variable DefaultOptions, the one variable    *)
(* both read, is never written.                                            *)
(***************************************************************************)
RECURSIVE AloneAfter(_, _)
\* The call after n steps of its loop, nothing else running.
AloneAfter(args, n) ==
    IF n = 0
    THEN begin(NewCall(args.query, args.opts), DefaultOptionsValue)
    ELSE step(AloneAfter(args, n - 1))

\* The steps of its loop the call has taken.
StepsTaken(c) == IF c.pc = "loop" THEN c.k ELSE c.k + 1

C19_NoSharedState ==
    /\ DefaultOptions = DefaultOptionsValue
    /\ \A id \in DOMAIN calls :
          calls[id].pc # "start" =>
              calls[id] = AloneAfter(calls[id].args, StepsTaken(calls[id]))

C19_Witness ==
    /\ DOMAIN calls = Callers
    /\ calls[1].pc = "loop"
    /\ calls[2].pc = "loop"
    /\ calls[1].k = 1
    /\ calls[2].k = 1
    /\ calls[1].args.query = calls[2].args.query
    /\ calls[1].args.opts.Separators = <<"&">>
    /\ calls[2].args.opts.Separators = <<>>
    /\ calls[1].root # calls[2].root


(***************************************************************************)
(* C21: an empty token that is not the leaf, applied to a slice, appends   *)
(* one new container, a slice when the next token is empty or numeric and  *)
(* a map otherwise, and the rest of the key is written into that new       *)
(* container only: the elements the slice had are unchanged.  k pairs      *)
(* a[][b]=v1 .. a[][b]=vk give [{b:v1}, .., {b:vk}].                       *)
(***************************************************************************)
NestKey == Key(A1, << <<>>, <<"b">> >>)

\* The elements of the slice the walk starts from at the base, for an empty
\* or numeric first token.
BaseElems ==
    IF LastBase \notin DOMAIN prev THEN <<>>
    ELSE IF IsScalar(prev[LastBase]) THEN <<prev[LastBase]>>
         ELSE IF IsSequence(prev[LastBase]) THEN prev[LastBase].val
              ELSE <<>>

\* The elements of the slice found under the key tok of the map the walk
\* starts from, none when the key is absent or holds no slice.
ChildElems(tok) ==
    IF /\ LastBase \in DOMAIN prev
       /\ IsMapping(prev[LastBase])
       /\ tok \in DOMAIN prev[LastBase].val
       /\ IsSequence(prev[LastBase].val[tok])
    THEN prev[LastBase].val[tok].val
    ELSE <<>>

\* The places where an empty token of the last pair, followed by the leaf
\* token, was applied to a slice: the elements before, the slice after and
\* the leaf token.
NestSites ==
    (IF /\ Applied
        /\ Len(LastTokens) = 2
        /\ LastTokens[1] = <<>>
        /\ ~(LastBase \in DOMAIN prev /\ IsMapping(prev[LastBase]))
     THEN {[pre |-> BaseElems, post |-> root[LastBase], next |-> LastTokens[2]]}
     ELSE {})
    \cup
    (IF /\ Applied
        /\ Len(LastTokens) = 3
        /\ IsAssoc(LastTokens[1])
        /\ LastTokens[2] = <<>>
     THEN {[pre |-> ChildElems(LastTokens[1]),
            post |-> root[LastBase].val[LastTokens[1]],
            next |-> LastTokens[3]]}
     ELSE {})

C21_NestedAppend ==
    /\ \A st \in NestSites :
          st.post = Sequence(st.pre \o <<OnlyValue(st.next, LastValue)>>)
    /\ (Applied /\ \A j \in 1..Len(pairs) : pairs[j][1] = NestKey) =>
          root = (A1 :> Sequence([j \in 1..Len(pairs) |->
                                     Mapping(<<"b">> :> Scalar(pairs[j][2]))]))

C21_Witness ==
    /\ Applied
    /\ Len(pairs) = 3
    /\ \A j \in 1..3 : pairs[j][1] = NestKey
    /\ pairs[1][2] # pairs[2][2]
    /\ \E st \in NestSites : Len(st.pre) = 2 /\ Len(st.post.val) = 3


(***************************************************************************)
(* C22: applying a pair always completes: the loop never stops before the  *)
(* end of the query, and after n pairs the tree is the one obtained by     *)
(* applying each of them once, in input order, from the empty tree.        *)
(***************************************************************************)
\* The body of the loop on one decoded pair: the tree after it, or fatal.
ApplyPair(rt, pr) ==
    IF PairTokens(pr) = <<>>
    THEN [fatal |-> FALSE, root |-> assignPlain(rt, PairBase(pr), pr[2])]
    ELSE insert(rt, PairBase(pr), PairTokens(pr), pr[2])

RECURSIVE TreeAfter(_)
\* The tree after the pairs ps, each applied once in order; a pair that
\* cannot be applied leaves the tree as it was.
TreeAfter(ps) ==
    IF ps = <<>> THEN EmptyMap
    ELSE ApplyPair(TreeAfter(SubSeq(ps, 1, Len(ps) - 1)), ps[Len(ps)]).root

\* The loop has gone through all the pairs it was given.
AllApplied == pc = "loop" /\ root = TreeAfter(pairs)

C22_AlwaysCompletes == AllApplied


(***************************************************************************)
(* C23: after every complete application of a pair the tree is well        *)
(* formed: every node is a string, a slice or a map, no slice and no map   *)
(* is empty, and the last element of every slice is not a hole.            *)
(***************************************************************************)
\* The entries of a container.
Entries(nd) == {nd.val[q] : q \in DOMAIN nd.val}

RECURSIVE WellFormed(_, _)
\* The node is a string, or a slice or a map that is not empty and whose
\* entries are well formed; a hole is allowed as an element of a slice but
\* the last, and under a decimal key of a map when holesInMaps.
WellFormed(nd, holesInMaps) ==
    CASE IsScalar(nd) -> TRUE
      [] IsSequence(nd) ->
            /\ nd.val # <<>>
            /\ ~IsHole(nd.val[Len(nd.val)])
            /\ \A e \in Entries(nd) : IsHole(e) \/ WellFormed(e, holesInMaps)
      [] IsMapping(nd) ->
            /\ DOMAIN nd.val # {}
            /\ \A q \in DOMAIN nd.val :
                  IF IsHole(nd.val[q])
                  THEN holesInMaps /\ isNumeric(q)
                  ELSE WellFormed(nd.val[q], holesInMaps)
      [] OTHER -> FALSE

\* As stated: the entries of a map are nodes, never holes.
C23_WellFormedTree ==
    Applied =>
        /\ root # EmptyMap
        /\ \A b \in DOMAIN root : WellFormed(root[b], FALSE)

\* As the code has it: a map made from a slice keeps the holes of the slice
\* as entries.
C23_WellFormedHolesKept ==
    Applied =>
        /\ root # EmptyMap
        /\ \A b \in DOMAIN root : WellFormed(root[b], TRUE)

C23_Witness ==
    /\ Applied
    /\ Len(pairs) = 3
    /\ A1 \in DOMAIN root
    /\ IsMapping(root[A1])
    /\ \E q \in DOMAIN root[A1].val : IsHole(root[A1].val[q])
    /\ \E q \in DOMAIN root[A1].val :
          /\ IsSequence(root[A1].val[q])
          /\ Len(root[A1].val[q].val) = 2


(***************************************************************************)
(* C24: a pair changes only the entry of its own base: every other entry   *)
(* of the tree is as it was, so two pairs with different bases give the    *)
(* same result, the same tree or no tree, in either order from the same    *)
(* tree.                                                                   *)
(***************************************************************************)
B1 == <<"b">>

\* The pairs a query of the nesting keys is made of.
NestPairs == {<<dk, dv>> : dk \in NestKeys, dv \in Values}

\* What the caller gets: the tree, or nothing when the program was aborted.
Result(r) == IF r.fatal THEN Fatal ELSE Mapping(r.root)

\* The pair q after a pair whose outcome was r.
Then(r, q) == IF r.fatal THEN r ELSE ApplyPair(r.root, q)

\* The pairs p and q applied in this order to the tree rt.
InOrder(rt, p, q) == Result(Then(ApplyPair(rt, p), q))

C24_OtherBasesUntouched ==
    /\ Applied => Without(root, LastBase) = Without(prev, LastBase)
    /\ pairs # <<>> =>
          \A q \in NestPairs :
              PairBase(q) # LastBase =>
                  InOrder(prev, LastPair, q) = InOrder(prev, q, LastPair)

C24_Witness ==
    /\ Applied
    /\ Len(pairs) = 3
    /\ LastBase = A1
    /\ LastTokens # <<>>
    /\ A1 \in DOMAIN prev
    /\ B1 \in DOMAIN prev
    /\ IsSequence(prev[B1])
    /\ root[B1] = prev[B1]
    /\ root[A1] # prev[A1]
    /\ InOrder(prev, LastPair, <<Key(B1, << <<>> >>), <<"y">> >>)
          = InOrder(prev, <<Key(B1, << <<>> >>), <<"y">> >>, LastPair)
    /\ InOrder(prev, LastPair, <<Key(B1, << <<>> >>), <<"y">> >>) # Mapping(root)

====
